---- MODULE Spec2Model ----
(***************************************************************************)
(* Browser-extension bulk save (BulkSavePage.handleBulkSave) and the       *)
(* settings store (usePluginSettings / getPluginSettings /                 *)
(* subscribeToSettingsChanges) over chrome.storage.sync.                   *)
(*                                                                         *)
(* Spec          one BulkSavePage: runs of handleBulkSave, one at a time.  *)
(* SpecLive      Spec with the run's steps taken sooner or later.          *)
(* SpecPage      the popup: SavePage, BulkSavePage's effect, the runs it   *)
(*               starts, overlapping or not.                               *)
(* SpecRead      one caller of getPluginSettings, twice in a row.          *)
(* SpecStore     the settings store: the hook, its writes, the listeners.  *)
(* SpecWrite     two surfaces writing the stored settings concurrently.    *)
(* SpecClose     Spec with the close-tabs setting changing during a run.   *)
(* SpecTabs      Spec after the tab queries and the filter of prepare().   *)
(* SpecAuto      SpecPage loaded with ?auto=all or ?auto=window.           *)
(***************************************************************************)
EXTENDS Integers, Sequences, FiniteSets, TLC

(***************************************************************************)
(* Bounds                                                                  *)
(***************************************************************************)
\* longest tab list handed to handleBulkSave
MaxTabs == 3
\* runs of BulkSavePage's effect (calls of prepare()) followed in SpecPage
MaxPrepares == 3
\* invocations of handleBulkSave that start a run followed in SpecPage
MaxRuns == 2
\* stored objects differ from BaseFull or BaseMinimal in at most this many
\* properties
MaxDeviations == 2
\* writes of the settings key followed in SpecStore
MaxWrites == 2

(***************************************************************************)
(* JavaScript values                                                       *)
(***************************************************************************)
\* the value of a variable or property that is not set
Undefined == "undefined"

(***************************************************************************)
(* Tabs (chrome.tabs.Tab): id is optional, 0 stands for an absent id       *)
(* (`if (tab.id)` treats both alike); title "" stands for an absent title  *)
(* (`tab.title || tab.url` treats both alike).                             *)
(***************************************************************************)
TabA == [id |-> 1, title |-> "A-title", url |-> "https://a.example/"]
TabB == [id |-> 2, title |-> "B-title", url |-> "https://b.example/"]
TabC == [id |-> 3, title |-> "", url |-> "http://c.example/"]
TabD == [id |-> 0, title |-> "D-title", url |-> "https://d.example/"]
Tabs == {TabA, TabB, TabC, TabD}

\* tab lists without repetition, as chrome.tabs.query returns them
TabLists ==
  {s \in UNION {[1..n -> Tabs] : n \in 0..MaxTabs} :
     \A a, b \in DOMAIN s : a # b => s[a] # s[b]}

\* messages of the errors the create operation reports
ErrorMessages == {"timeout"}

\* what createBookmark does with one request: it calls onSuccess, calls
\* onError(error), throws an Error, or throws something that is no Error
CreateReplies ==
  {[kind |-> "success", message |-> ""]}
    \cup {[kind |-> "error", message |-> m] : m \in ErrorMessages}
CreateThrows ==
  {[kind |-> "throwError", message |-> m] : m \in ErrorMessages}
    \cup {[kind |-> "throwOther", message |-> ""]}

VARIABLES
  \* ---- BulkSavePage component state
  error,              \* useState error: a message or Undefined
  allTabs,            \* useState allTabs
  currentWindowTabs,  \* useState currentWindowTabs
  closeTabs,          \* useState closeTabs
  bulkSaveStatus,     \* useState bulkSaveStatus
  \* ---- one invocation of handleBulkSave
  pc,                 \* where the invocation stands
  saveType,           \* its argument
  tabsToSave,         \* const tabsToSave
  closeAfter,         \* closeTabs as the callback's closure holds it
  i,                  \* loop index, 0-based as in the source
  completed,          \* let completed
  errors,             \* const errors
  savedTabIds,        \* const savedTabIds
  fallbackIdx,        \* position of the per-tab fallback loop
  \* ---- what the run did to its collaborators (history)
  createLog,          \* the requests passed to createBookmark, in order
  outcomes,           \* per created tab: "ok" or "failed"
  closeLog,           \* the chrome.tabs.remove calls, in order
  progressLog,        \* the progress values written to bulkSaveStatus
  lastCall,           \* the latest invocation: its argument, its list's length
  \* ---- chrome.storage.sync
  stored,             \* the value under the "settings" key
  \* ---- a caller of getPluginSettings
  readerCopy,         \* which copy of the settings module it imports: 1 or 2
  rpc,                \* "idle", or "fetched" once STORAGE.get has resolved
  fetched,            \* const storedSettings
  reads,              \* its latest returns, at most two (history)
  \* ---- one usePluginSettings and one subscribeToSettingsChanges
  settings,           \* useState settings of the hook
  isInit,             \* useState isInit of the hook
  hpc,                \* the hook's effect: "unmounted", "reading", "fetched",
                      \* "resolved", "ready"
  hfetched,           \* storedSettings of the hook's getPluginSettings call
  hresult,            \* what that call resolves to
  registered,         \* the listeners on STORAGE.onChanged
  pending,            \* per listener: changes not yet delivered
  received,           \* per listener: what its callback was given (history)
  written,            \* the writes of the key, in order (history)
  \* ---- the popup: SavePage, then BulkSavePage with its effect
  route,              \* the page shown: "none", "save" or "bulk"
  auto,               \* searchParams.get("auto"): "null", "all" or "window"
  session,            \* chrome.storage.session: the stored request's type
  spc,                \* SavePage.prepareBookmarkData: where it stands
  sreq,               \* its const req
  prepares,           \* BulkSavePage: the calls of prepare(), one per effect
  runs,               \* BulkSavePage: the invocations of handleBulkSave
  \* ---- the end of handleBulkSave
  closeTimer,         \* setTimeout(() => window.close(), 700) was called
  \* ---- two more usePluginSettings, each in a surface of its own
  writers,            \* per surface: useState settings, its setSettings call
  completions,        \* the STORAGE.set calls that completed (history)
  \* ---- prepare() of BulkSavePage
  dropped             \* how many queried tabs its filter left out (history)

pageVars == <<error, allTabs, currentWindowTabs, closeTabs, bulkSaveStatus>>
runVars == <<pc, saveType, tabsToSave, closeAfter, i, completed, errors,
             savedTabIds, fallbackIdx>>
histVars == <<createLog, outcomes, closeLog, progressLog, lastCall>>
bulkVars == <<pageVars, runVars, histVars>>
readVars == <<readerCopy, rpc, fetched, reads>>
hookVars == <<settings, isInit, hpc, hfetched, hresult, registered, pending,
              received, written>>
writeVars == <<writers, completions>>
storeVars == <<stored, readVars, hookVars, writeVars>>
effectVars == <<route, auto, session, spc, sreq, prepares, runs>>
vars == <<bulkVars, storeVars, effectVars, closeTimer, dropped>>

(***************************************************************************)
(* Values kept under the "settings" key of chrome.storage.sync.  A value   *)
(* is written as its JSON text; Undefined is a property that is not set.   *)
(* An object is a record over Keys; `other` stands for a property the      *)
(* schema does not know (a field of another version, an array's index).    *)
(***************************************************************************)
JsonStrings ==
  {"\"\"", "\"k\"", "\"id\"", "\"https://cloud.karakeep.app\"",
   "\"https://self.example\"", "\"light\"", "\"dark\"", "\"system\"",
   "\"neon\"", "\"x\""}
JsonBooleans == {"true", "false"}
JsonNumbers == {"3600000", "5000", "0", "-1"}
JsonNonNegative == {"3600000", "5000", "0"}
JsonStringRecords == {"{}", "{\"X-A\":\"1\"}"}
JsonNull == "null"

SchemaKeys ==
  {"apiKey", "apiKeyId", "address", "autoSave", "closeTabsOnBulkSave",
   "theme", "showCountBadge", "useBadgeCache", "badgeCacheExpireMs",
   "customHeaders"}
\* the second copy of the schema knows neither autoSave nor
\* closeTabsOnBulkSave
SchemaKeys_2 == SchemaKeys \ {"autoSave", "closeTabsOnBulkSave"}
Keys == SchemaKeys \cup {"other"}

\* the object without properties
NoProps == [k \in Keys |-> Undefined]

\* { ...a, ...b }
Spread(a, b) == [k \in Keys |-> IF b[k] # Undefined THEN b[k] ELSE a[k]]

\* the types of the schema's fields
FieldType(k) ==
  CASE k \in {"apiKey", "apiKeyId", "address"} -> JsonStrings
    [] k \in {"autoSave", "closeTabsOnBulkSave", "showCountBadge",
              "useBadgeCache"} -> JsonBooleans
    [] k = "theme" -> {"\"light\"", "\"dark\"", "\"system\""}
    [] k = "badgeCacheExpireMs" -> JsonNonNegative
    [] k = "customHeaders" -> JsonStringRecords

\* the fields that may be absent: .optional() or .default(...)
MayBeAbsent(k) == k # "apiKey"

\* the .default(...) of the schema's fields; Undefined where there is none
SchemaDefault(k) ==
  CASE k = "address" -> "\"https://cloud.karakeep.app\""
    [] k = "autoSave" -> "false"
    [] k = "theme" -> "\"system\""
    [] k = "showCountBadge" -> "false"
    [] k = "useBadgeCache" -> "true"
    [] k = "badgeCacheExpireMs" -> "3600000"
    [] k = "customHeaders" -> "{}"
    [] OTHER -> Undefined

\* schema.safeParse(raw) for a z.object over `keys`: an object whose known
\* properties all validate; data holds the known properties, defaults
\* filled in, unknown properties stripped
SafeParse(keys, raw) ==
  LET ok == /\ raw.kind = "object"
            /\ \A k \in keys :
                 IF raw.obj[k] = Undefined THEN MayBeAbsent(k)
                 ELSE raw.obj[k] \in FieldType(k)
  IN [success |-> ok,
      data |-> IF ok
        THEN [k \in Keys |->
                IF k \notin keys THEN Undefined
                ELSE IF raw.obj[k] = Undefined THEN SchemaDefault(k)
                ELSE raw.obj[k]]
        ELSE NoProps]

zSettingsSchema(raw) == SafeParse(SchemaKeys, raw)
zSettingsSchema_2(raw) == SafeParse(SchemaKeys_2, raw)

DEFAULT_SETTINGS ==
  [k \in Keys |->
     CASE k = "apiKey" -> "\"\""
       [] k = "closeTabsOnBulkSave" -> "false"
       [] OTHER -> SchemaDefault(k)]

DEFAULT_SETTINGS_2 ==
  [k \in Keys |->
     CASE k = "apiKey" -> "\"\""
       [] k \in {"autoSave", "closeTabsOnBulkSave"} -> Undefined
       [] OTHER -> SchemaDefault(k)]

\* a stored value: what it is, and its own properties
Obj(o) == [kind |-> "object", obj |-> o]
NoValue == [kind |-> "undefined", obj |-> NoProps]

\* `storedSettings && typeof storedSettings === "object"`
IsNonNullObject(raw) == raw.kind \in {"object", "array"}

(***************************************************************************)
(* The stored values the model starts from                                 *)
(***************************************************************************)
\* a record with every field set to a valid value that is not the default
BaseFull ==
  [k \in Keys |->
     CASE k = "apiKey" -> "\"k\""
       [] k = "apiKeyId" -> "\"id\""
       [] k = "address" -> "\"https://self.example\""
       [] k = "autoSave" -> "true"
       [] k = "closeTabsOnBulkSave" -> "true"
       [] k = "theme" -> "\"dark\""
       [] k = "showCountBadge" -> "true"
       [] k = "useBadgeCache" -> "false"
       [] k = "badgeCacheExpireMs" -> "5000"
       [] k = "customHeaders" -> "{\"X-A\":\"1\"}"
       [] OTHER -> Undefined]

\* the record of an early version: the API key and nothing else
BaseMinimal == [NoProps EXCEPT !["apiKey"] = "\"k\""]

\* what a property may hold besides BaseFull's value: nothing, a value of
\* the wrong type, null; `other` is set or not
Alternatives(k) ==
  CASE k = "other" -> {Undefined, "\"x\""}
    [] k = "apiKey" -> {Undefined, "\"k\"", "5000"}
    [] k = "closeTabsOnBulkSave" -> {Undefined, "true", "false", "\"x\""}
    [] k = "theme" -> {Undefined, "\"dark\"", "\"neon\""}
    [] k = "badgeCacheExpireMs" -> {Undefined, "5000", "-1"}
    [] k = "autoSave" -> {Undefined, "true", JsonNull}
    [] OTHER -> {Undefined, BaseFull[k]}

\* the objects that differ from one of `objs` in at most n properties
RECURSIVE Deviating(_, _)
Deviating(objs, n) ==
  IF n = 0 THEN objs
  ELSE Deviating(
         objs \cup UNION {{[o EXCEPT ![k] = v] : v \in Alternatives(k)} :
                            o \in objs, k \in Keys},
         n - 1)

StoredObjects == Deviating({BaseFull, BaseMinimal}, MaxDeviations)

\* absent, null, a string, an array (empty or with one element), an object
StoredValues ==
  {NoValue,
   [kind |-> "null", obj |-> NoProps],
   [kind |-> "string", obj |-> NoProps],
   [kind |-> "array", obj |-> NoProps],
   [kind |-> "array", obj |-> [NoProps EXCEPT !["other"] = "\"x\""]]}
    \cup {Obj(o) : o \in StoredObjects}

(***************************************************************************)
(* bulkSaveStatus                                                          *)
(***************************************************************************)
\* progress is a quotient; it is kept exact as numerator and denominator
Percent(done, total) == [num |-> done * 100, den |-> total]
Zero == [num |-> 0, den |-> 1]
RatLeq(p, q) == p.num * q.den <= q.num * p.den
RatEq(p, q) == p.num * q.den = q.num * p.den
Hundred == [num |-> 100, den |-> 1]

InitialStatus ==
  [isActive |-> FALSE, progress |-> Zero, total |-> 0, completed |-> 0,
   errors |-> <<>>, saveType |-> "null"]

StartedStatus(type, tabs) ==
  [isActive |-> TRUE, progress |-> Zero, total |-> Len(tabs), completed |-> 0,
   errors |-> <<>>, saveType |-> type]

\* `${tab.title || tab.url}: ${message}`
ErrorMsg(tab, message) ==
  (IF tab.title # "" THEN tab.title ELSE tab.url) \o ": " \o message

\* the request handed to createBookmark
Request(tab) ==
  [type |-> "link", url |-> tab.url,
   title |-> IF tab.title # "" THEN tab.title ELSE Undefined]

\* Summary with the two numbers of its message the wrong way round
Summary_TotalOfDone(done, total) ==
  IF done = total THEN Undefined
  ELSE IF done > 0
    THEN "Saved " \o ToString(total) \o " of " \o ToString(done)
           \o " tabs. Some tabs failed to save."
    ELSE "Failed to save any tabs."

\* Summary without its last branch: no message of its own for done = 0
Summary_NoFailureCase(done, total) ==
  IF done = total THEN Undefined
  ELSE "Saved " \o ToString(done) \o " of " \o ToString(total)
         \o " tabs. Some tabs failed to save."

\* the summary set once the run is over
Summary(done, total) ==
  IF done = total THEN Undefined
  ELSE IF done > 0
    THEN "Saved " \o ToString(done) \o " of " \o ToString(total)
           \o " tabs. Some tabs failed to save."
    ELSE "Failed to save any tabs."

\* the listeners of the model
Listeners == {"hook", "subscriber"}

\* the surfaces besides the popup that hold a usePluginSettings of their
\* own (two more extension pages)
Surfaces == {1, 2}

\* no setSettings call under way in a surface
NoCall == [checked |-> "null", snapshot |-> NoProps, newVal |-> NoValue]

\* no such surface is open
WritersAtRest ==
  /\ writers = [w \in Surfaces |-> [settings |-> DEFAULT_SETTINGS,
                                    call |-> NoCall]]
  /\ completions = <<>>

\* no caller of getPluginSettings
ReaderAtRest ==
  /\ readerCopy = 1
  /\ rpc = "idle"
  /\ fetched = NoValue
  /\ reads = <<>>

\* no usePluginSettings mounted, no subscribeToSettingsChanges called
HookAtRest ==
  /\ settings = DEFAULT_SETTINGS
  /\ isInit = FALSE
  /\ hpc = "unmounted"
  /\ hfetched = NoValue
  /\ hresult = NoProps
  /\ registered = {}
  /\ pending = [l \in Listeners |-> <<>>]
  /\ received = [l \in Listeners |-> <<>>]
  /\ written = <<>>

\* no popup is open and no request is stored
EffectsAtRest ==
  /\ route = "none"
  /\ auto = "null"
  /\ session = "none"
  /\ spc = "off"
  /\ sreq = Undefined
  /\ prepares = <<>>
  /\ runs = <<>>

\* a BulkSavePage that has just been mounted: no tab found yet
PageAtRest ==
  /\ error = Undefined
  /\ allTabs = <<>>
  /\ currentWindowTabs = <<>>
  /\ closeTabs = FALSE
  /\ bulkSaveStatus = InitialStatus
  /\ dropped = 0

\* no invocation of handleBulkSave yet
RunAtRest ==
  /\ pc = "idle"
  /\ saveType = "null"
  /\ tabsToSave = <<>>
  /\ closeAfter = FALSE
  /\ i = 0
  /\ completed = 0
  /\ errors = <<>>
  /\ savedTabIds = <<>>
  /\ fallbackIdx = 0
  /\ createLog = <<>>
  /\ outcomes = <<>>
  /\ closeLog = <<>>
  /\ progressLog = <<>>
  /\ lastCall = [type |-> "null", length |-> 0]
  /\ closeTimer = FALSE

\* BulkSavePage once prepare() has set the tab lists and the settings have
\* set closeTabs; the store plays no part
Init ==
  /\ error = Undefined
  /\ allTabs \in TabLists
  /\ \E k \in 0..Len(allTabs) : currentWindowTabs = SubSeq(allTabs, 1, k)
  /\ closeTabs \in BOOLEAN
  /\ bulkSaveStatus = InitialStatus
  /\ dropped = 0
  /\ RunAtRest
  /\ stored = NoValue
  /\ ReaderAtRest
  /\ HookAtRest
  /\ WritersAtRest
  /\ EffectsAtRest

(***************************************************************************)
(* handleBulkSave: the pieces of its body                                  *)
(***************************************************************************)
\* const tabsToSave = saveType === "all" ? allTabs : currentWindowTabs
TabsFor(type) == IF type = "all" THEN allTabs ELSE currentWindowTabs

\* NoValidTabs with the length test left out
NoValidTabs_Never(tabs) == FALSE

\* if (tabsToSave.length === 0) { setError(...); return; }
NoValidTabs(tabs) == Len(tabs) = 0

\* onSuccess: if (tab.id) savedTabIds.push(tab.id)
PushSaved(ids, tab) == IF tab.id # 0 THEN Append(ids, tab.id) ELSE ids

\* onSuccess: setBulkSaveStatus(prev => ({...prev, progress, completed}))
SuccessStatus(prev, idx, total, done) ==
  [prev EXCEPT !.progress = Percent(idx + 1, total), !.completed = done]

\* ErrorStatus that advances progress and forgets the message
ErrorStatus_DropsMessage(prev, idx, total, msg) ==
  [prev EXCEPT !.progress = Percent(idx + 1, total)]

\* ErrorStatus putting the new message in front of the earlier ones
ErrorStatus_Prepends(prev, idx, total, msg) ==
  [prev EXCEPT !.progress = Percent(idx + 1, total),
               !.errors = <<msg>> \o prev.errors]

\* onError: setBulkSaveStatus(prev => ({...prev, progress, errors: [...]}))
ErrorStatus(prev, idx, total, msg) ==
  [prev EXCEPT !.progress = Percent(idx + 1, total),
               !.errors = Append(prev.errors, msg)]

\* catch: setBulkSaveStatus(prev => ({...prev, errors: [...]}))
CatchStatus(prev, msg) == [prev EXCEPT !.errors = Append(prev.errors, msg)]

\* catch: error instanceof Error ? error.message : "Unknown error"
ThrownMessage(thrown) ==
  IF thrown.kind = "throwError" THEN thrown.message ELSE "Unknown error"

\* CloseSetting reading the closeTabs of the latest render
CloseSetting_OfLatestRender == closeTabs

\* the closeTabs that closeTabsHelper and the end of handleBulkSave read:
\* the one of the render that created the handleBulkSave that is running
CloseSetting == closeAfter

\* closeTabsHelper: if (!closeTabs || tabIds.length === 0) return
SkipsClose(close, ids) == ~close \/ Len(ids) = 0

\* IdsToClose taking every tab of the run, saved or not
IdsToClose_AllTabs ==
  SelectSeq([k \in 1..Len(tabsToSave) |-> tabsToSave[k].id], LAMBDA id : id # 0)

\* the argument of closeTabsHelper(savedTabIds)
IdsToClose == savedTabIds

\* NextIndex stepping over the tab that follows
NextIndex_SkipsOne(idx) == idx + 2

\* the index the for loop goes on with after an attempt (i++)
NextIndex(idx) == idx + 1

\* the message of the empty-list rejection
NoValidTabsMessage == "No valid tabs found to save"

\* the invocation: the empty-list rejection, or the start of a run
handleBulkSave(type) ==
  LET tabs == TabsFor(type) IN
  IF NoValidTabs(tabs)
    THEN /\ error' = NoValidTabsMessage
         /\ lastCall' = [type |-> type, length |-> Len(tabs)]
         /\ UNCHANGED <<allTabs, currentWindowTabs, closeTabs, bulkSaveStatus>>
         /\ UNCHANGED <<runVars, createLog, outcomes, closeLog, progressLog>>
         /\ UNCHANGED <<storeVars, effectVars, closeTimer, dropped>>
    ELSE /\ bulkSaveStatus' = StartedStatus(type, tabs)
         /\ pc' = "loop"
         /\ saveType' = type
         /\ tabsToSave' = tabs
         /\ closeAfter' = closeTabs
         /\ i' = 0
         /\ completed' = 0
         /\ errors' = <<>>
         /\ savedTabIds' = <<>>
         /\ fallbackIdx' = 0
         /\ createLog' = <<>>
         /\ outcomes' = <<>>
         /\ closeLog' = <<>>
         /\ progressLog' = <<Zero>>
         /\ lastCall' = [type |-> type, length |-> Len(tabs)]
         /\ UNCHANGED <<error, allTabs, currentWindowTabs, closeTabs>>
         /\ UNCHANGED <<storeVars, effectVars, closeTimer, dropped>>

\* no invocation of handleBulkSave is under way
NoRun == pc \in {"idle", "done"}

(***************************************************************************)
(* Callers of handleBulkSave                                               *)
(***************************************************************************)
\* the two buttons of the idle view
ClickSave ==
  /\ NoRun
  /\ ~bulkSaveStatus.isActive /\ bulkSaveStatus.total = 0
  /\ \/ /\ Len(currentWindowTabs) > 0
        /\ handleBulkSave("window")
     \/ /\ Len(allTabs) > Len(currentWindowTabs)
        /\ handleBulkSave("all")

\* prepare(): the auto query parameter ("all" or "window") and the session
\* request ("window"), taken while no invocation is under way
AutoTrigger ==
  /\ NoRun
  /\ ~bulkSaveStatus.isActive
  /\ \E type \in {"all", "window"} : handleBulkSave(type)

\* the Done button of the completion view
DoneButton ==
  /\ NoRun
  /\ ~bulkSaveStatus.isActive /\ bulkSaveStatus.total > 0
  /\ bulkSaveStatus' = InitialStatus
  /\ pc' = "idle"
  /\ UNCHANGED <<error, allTabs, currentWindowTabs, closeTabs>>
  \* the locals of the invocation that returned are gone
  /\ saveType' = "null" /\ tabsToSave' = <<>> /\ closeAfter' = FALSE
  /\ i' = 0 /\ completed' = 0 /\ errors' = <<>> /\ savedTabIds' = <<>>
  /\ fallbackIdx' = 0
  /\ createLog' = <<>> /\ outcomes' = <<>> /\ closeLog' = <<>>
  /\ progressLog' = <<>>
  /\ UNCHANGED lastCall
  /\ UNCHANGED <<storeVars, effectVars, closeTimer, dropped>>

(***************************************************************************)
(* The loop over tabsToSave                                                *)
(***************************************************************************)
\* createBookmark(request, {onSuccess, onError}) is called for tab i; it
\* either takes the request or throws, and a throw lands in the catch branch
CallCreate ==
  /\ pc = "loop"
  /\ i < Len(tabsToSave)
  /\ LET tab == tabsToSave[i + 1] IN
     /\ createLog' = Append(createLog, [index |-> i, request |-> Request(tab)])
     /\ \/ /\ pc' = "awaitCreate"
           /\ UNCHANGED <<bulkSaveStatus, i, errors, outcomes, progressLog>>
        \/ \E thrown \in CreateThrows :
             LET msg == ErrorMsg(tab, ThrownMessage(thrown))
                 st == CatchStatus(bulkSaveStatus, msg) IN
             /\ errors' = Append(errors, msg)
             /\ bulkSaveStatus' = st
             /\ progressLog' = Append(progressLog, st.progress)
             /\ outcomes' = Append(outcomes, "failed")
             /\ i' = NextIndex(i)
             /\ pc' = "loop"
  /\ UNCHANGED <<error, allTabs, currentWindowTabs, closeTabs>>
  /\ UNCHANGED <<saveType, tabsToSave, closeAfter, completed, savedTabIds,
                 fallbackIdx, closeLog, lastCall>>
  /\ UNCHANGED <<storeVars, effectVars, closeTimer, dropped>>

\* the mutation reports: onSuccess, or the hook's onError and then onError
CreateSettled ==
  /\ pc = "awaitCreate"
  /\ LET tab == tabsToSave[i + 1]
         total == Len(tabsToSave) IN
     \E reply \in CreateReplies :
       IF reply.kind = "success"
         THEN LET st == SuccessStatus(bulkSaveStatus, i, total, completed + 1) IN
              /\ completed' = completed + 1
              /\ savedTabIds' = PushSaved(savedTabIds, tab)
              /\ bulkSaveStatus' = st
              /\ progressLog' = Append(progressLog, st.progress)
              /\ outcomes' = Append(outcomes, "ok")
              /\ UNCHANGED <<error, errors>>
         ELSE LET msg == ErrorMsg(tab, reply.message)
                  st == ErrorStatus(bulkSaveStatus, i, total, msg) IN
              /\ error' = "Something went wrong: " \o reply.message
              /\ errors' = Append(errors, msg)
              /\ bulkSaveStatus' = st
              /\ progressLog' = Append(progressLog, st.progress)
              /\ outcomes' = Append(outcomes, "failed")
              /\ UNCHANGED <<completed, savedTabIds>>
  /\ pc' = "delay"
  /\ UNCHANGED <<allTabs, currentWindowTabs, closeTabs>>
  /\ UNCHANGED <<saveType, tabsToSave, closeAfter, i, fallbackIdx>>
  /\ UNCHANGED <<createLog, closeLog, lastCall>>
  /\ UNCHANGED <<storeVars, effectVars, closeTimer, dropped>>

\* await new Promise(resolve => setTimeout(resolve, 100)); then i++
DelayElapsed ==
  /\ pc = "delay"
  /\ i' = NextIndex(i)
  /\ pc' = "loop"
  /\ UNCHANGED pageVars
  /\ UNCHANGED <<saveType, tabsToSave, closeAfter, completed, errors,
                 savedTabIds, fallbackIdx>>
  /\ UNCHANGED histVars
  /\ UNCHANGED <<storeVars, effectVars, closeTimer, dropped>>

(***************************************************************************)
(* After the loop: closeTabsHelper, the final status, the summary          *)
(***************************************************************************)
\* if (savedTabIds.length > 0) await closeTabsHelper(savedTabIds): the
\* batched chrome.tabs.remove(tabIds, callback), unless the helper returns
AfterLoop ==
  /\ pc = "loop"
  /\ i >= Len(tabsToSave)
  /\ IF Len(savedTabIds) > 0 /\ ~SkipsClose(CloseSetting, IdsToClose)
       THEN /\ closeLog' = Append(closeLog, [kind |-> "batch", ids |-> IdsToClose])
            /\ pc' = "awaitBatch"
       ELSE /\ pc' = "finish"
            /\ UNCHANGED closeLog
  /\ UNCHANGED pageVars
  /\ UNCHANGED <<saveType, tabsToSave, closeAfter, i, completed, errors,
                 savedTabIds, fallbackIdx>>
  /\ UNCHANGED <<createLog, outcomes, progressLog, lastCall>>
  /\ UNCHANGED <<storeVars, effectVars, closeTimer, dropped>>

\* the callback of the batched remove: resolve, or reject on lastError and
\* enter the catch branch's loop over tabIds
BatchCallback ==
  /\ pc = "awaitBatch"
  /\ \/ /\ pc' = "finish"
        /\ UNCHANGED fallbackIdx
     \/ /\ pc' = "fallback"
        /\ fallbackIdx' = 1
  /\ UNCHANGED pageVars
  /\ UNCHANGED <<saveType, tabsToSave, closeAfter, i, completed, errors,
                 savedTabIds>>
  /\ UNCHANGED histVars
  /\ UNCHANGED <<storeVars, effectVars, closeTimer, dropped>>

\* for (const tabId of tabIds) chrome.tabs.remove(tabId, () => resolve())
FallbackRemove ==
  /\ pc = "fallback"
  /\ IF fallbackIdx <= Len(IdsToClose)
       THEN /\ closeLog' = Append(closeLog,
                 [kind |-> "single", ids |-> <<IdsToClose[fallbackIdx]>>])
            /\ pc' = "awaitSingle"
       ELSE /\ pc' = "finish"
            /\ UNCHANGED closeLog
  /\ UNCHANGED pageVars
  /\ UNCHANGED <<saveType, tabsToSave, closeAfter, i, completed, errors,
                 savedTabIds, fallbackIdx>>
  /\ UNCHANGED <<createLog, outcomes, progressLog, lastCall>>
  /\ UNCHANGED <<storeVars, effectVars, closeTimer, dropped>>

\* SingleSettles giving up the remaining removes when one has failed
SingleSettles_StopsOnFailure(lastError) ==
  IF lastError THEN "finish" ELSE "fallback"

\* chrome.tabs.remove(tabId, () => resolve()): the callback looks at no
\* lastError, the loop over tabIds goes on
SingleSettles(lastError) == "fallback"

\* the callback of a single remove is called, the remove failed or not
SingleCallback ==
  /\ pc = "awaitSingle"
  /\ fallbackIdx' = fallbackIdx + 1
  /\ \E lastError \in BOOLEAN : pc' = SingleSettles(lastError)
  /\ UNCHANGED pageVars
  /\ UNCHANGED <<saveType, tabsToSave, closeAfter, i, completed, errors,
                 savedTabIds>>
  /\ UNCHANGED histVars
  /\ UNCHANGED <<storeVars, effectVars, closeTimer, dropped>>

\* FinalStatus leaving the status as the loop left it
FinalStatus_StaysActive(prev) == prev

\* setBulkSaveStatus(prev => ({...prev, isActive: false}))
FinalStatus(prev) == [prev EXCEPT !.isActive = FALSE]

\* the final status, then setError(summary), then the timer of
\* window.close() if (closeTabs)
Finish ==
  /\ pc = "finish"
  /\ bulkSaveStatus' = FinalStatus(bulkSaveStatus)
  /\ error' = Summary(completed, Len(tabsToSave))
  /\ closeTimer' = (closeTimer \/ CloseSetting)
  /\ pc' = "done"
  /\ UNCHANGED <<allTabs, currentWindowTabs, closeTabs>>
  /\ UNCHANGED <<saveType, tabsToSave, closeAfter, i, completed, errors,
                 savedTabIds, fallbackIdx>>
  /\ UNCHANGED histVars
  /\ UNCHANGED <<storeVars, effectVars, dropped>>

Next ==
  \/ ClickSave
  \/ AutoTrigger
  \/ DoneButton
  \/ CallCreate
  \/ CreateSettled
  \/ DelayElapsed
  \/ AfterLoop
  \/ BatchCallback
  \/ FallbackRemove
  \/ SingleCallback
  \/ Finish

Spec == Init /\ [][Next]_vars

(***************************************************************************)
(* Properties of a run of handleBulkSave (checked under Spec)              *)
(***************************************************************************)
\* the run is over: its final status (isActive = false) is in place
RunOver == pc = "done"

\* the run is over and handleBulkSave has not been invoked since: error
\* holds the run's summary
SummaryInPlace == RunOver /\ lastCall.length > 0

\* the tabs of the run whose create succeeded / failed, by position
Succeeded == {k \in DOMAIN outcomes : outcomes[k] = "ok"}
Failed == {k \in DOMAIN outcomes : outcomes[k] = "failed"}

SucceededWithId == {k \in Succeeded : tabsToSave[k].id # 0}

C2_CreateOncePerTabInOrder ==
  /\ Len(createLog) <= Len(tabsToSave)
  /\ \A k \in DOMAIN createLog :
       /\ createLog[k].index = k - 1
       /\ createLog[k].request = Request(tabsToSave[k])
  /\ Len(bulkSaveStatus.errors) = Cardinality(Failed)
  /\ RunOver => Len(createLog) = Len(tabsToSave)

\* a finished run whose third create followed two failures
C2_Witness ==
  /\ RunOver
  /\ Len(createLog) = 3
  /\ outcomes = <<"failed", "failed", "ok">>

\* C3: the progress values written during a run never decrease, and the
\* final status has progress = 100, for every mix of outcomes, a create that
\* throws included
C3_ProgressMonotoneEnds100 ==
  /\ \A k \in 1..(Len(progressLog) - 1) :
       RatLeq(progressLog[k], progressLog[k + 1])
  /\ RunOver => RatEq(bulkSaveStatus.progress, Hundred)

\* C4: every id handed to chrome.tabs.remove, batched or one by one, is the
\* id of a tab whose create succeeded in this run, and the batched request
\* holds exactly the ids of the succeeded tabs; requests need closeAfter
C4_ClosureScoping ==
  /\ (RunOver /\ closeAfter /\ SucceededWithId # {}) =>
       (closeLog # <<>> /\ closeLog[1].kind = "batch")
  /\ \A r \in DOMAIN closeLog :
    /\ closeAfter
    /\ \A n \in DOMAIN closeLog[r].ids :
         /\ \E k \in Succeeded : tabsToSave[k].id = closeLog[r].ids[n]
         /\ \A k \in Failed : tabsToSave[k].id # closeLog[r].ids[n]
    /\ closeLog[r].kind = "batch" =>
         /\ {closeLog[r].ids[n] : n \in DOMAIN closeLog[r].ids}
              = {tabsToSave[k].id : k \in Succeeded} \ {0}
         /\ Len(closeLog[r].ids) = Cardinality(SucceededWithId)

\* a finished run with a failed tab, a batched request and its fallback
C4_Witness ==
  /\ RunOver
  /\ closeAfter
  /\ Failed # {}
  /\ \E r \in DOMAIN closeLog : closeLog[r].kind = "batch"
  /\ \E r \in DOMAIN closeLog : closeLog[r].kind = "single"

\* C5: when every create of the run failed, the summary is
\* "Failed to save any tabs." and chrome.tabs.remove was never called, even
\* with closeAfter set
C5_AllFailed ==
  /\ Succeeded = {} => closeLog = <<>>
  /\ (SummaryInPlace /\ Succeeded = {}) => error = "Failed to save any tabs."

\* a finished run of two or more tabs, all failed, with closeAfter set
C5_Witness ==
  /\ SummaryInPlace
  /\ closeAfter
  /\ Succeeded = {}
  /\ Cardinality(Failed) >= 2

\* C6: an invocation with an empty tab list sets the "no valid tabs"
\* message and nothing else: bulkSaveStatus stays as it was (inactive), and
\* neither createBookmark nor chrome.tabs.remove is called
C6_EmptyListRejected ==
  [][(lastCall'.length = 0 /\ lastCall'.type # "null"
        /\ (lastCall' # lastCall \/ error' # error))
       => /\ error' = NoValidTabsMessage
          /\ ~bulkSaveStatus'.isActive
          /\ UNCHANGED <<bulkSaveStatus, createLog, closeLog, runVars>>]_vars

\* an empty list was rejected while the status of a finished run is shown
C6_Witness ==
  /\ lastCall.length = 0 /\ lastCall.type = "window"
  /\ error = NoValidTabsMessage
  /\ bulkSaveStatus.total > 0
  /\ createLog # <<>>

\* the three messages a run over N tabs with c successes can end with
PartialMessage(c, N) ==
  CASE c = 1 /\ N = 2 -> "Saved 1 of 2 tabs. Some tabs failed to save."
    [] c = 1 /\ N = 3 -> "Saved 1 of 3 tabs. Some tabs failed to save."
    [] c = 2 /\ N = 3 -> "Saved 2 of 3 tabs. Some tabs failed to save."
    [] c = 1 /\ N = 4 -> "Saved 1 of 4 tabs. Some tabs failed to save."
    [] c = 2 /\ N = 4 -> "Saved 2 of 4 tabs. Some tabs failed to save."
    [] c = 3 /\ N = 4 -> "Saved 3 of 4 tabs. Some tabs failed to save."
    [] OTHER -> "Saved " \o ToString(c) \o " of " \o ToString(N)
                  \o " tabs. Some tabs failed to save."

Closing == pc \in {"awaitBatch", "fallback", "awaitSingle"}

\* C18: when the batched remove fails, chrome.tabs.remove is then called
\* once for each saved tab, in order, whether or not a single remove fails;
\* no step of closeTabsHelper changes completed, errors, progress or total;
\* and the run ends with isActive = false and the counts of its creates
C18_CloseFailuresTolerated ==
  /\ [](\A r \in DOMAIN closeLog :
          r >= 2 => /\ closeLog[1].kind = "batch"
                    /\ closeLog[r].kind = "single"
                    /\ closeLog[r].ids = <<closeLog[1].ids[r - 1]>>)
  /\ []((RunOver /\ fallbackIdx > 0) =>
          /\ closeLog[1].ids = savedTabIds
          /\ Len(closeLog) = 1 + Cardinality(SucceededWithId))
  /\ []((RunOver /\ fallbackIdx = 0) => Len(closeLog) <= 1)
  /\ [](RunOver =>
          /\ ~bulkSaveStatus.isActive
          /\ bulkSaveStatus.completed = Cardinality(Succeeded)
          /\ Len(bulkSaveStatus.errors) = Cardinality(Failed)
          /\ bulkSaveStatus.total = Len(tabsToSave))
  /\ [][Closing =>
          /\ bulkSaveStatus' = bulkSaveStatus
          /\ UNCHANGED <<completed, errors, error>>
          /\ pc' \in {"awaitBatch", "fallback", "awaitSingle", "finish"}]_vars

\* a finished run with a failed create whose batched remove failed and
\* whose two saved tabs were then removed one by one
C18_Witness ==
  /\ RunOver
  /\ fallbackIdx > 0
  /\ Failed # {}
  /\ Len(closeLog) = 3
  /\ closeLog[2].kind = "single" /\ closeLog[3].kind = "single"

\* C14: within a run at most one create is in flight: createBookmark is
\* called for a tab only when every earlier create has reported, and the
\* loop moves on from tab i to a tab i + 1 of the list only once create i
\* has reported and the delay that follows it has elapsed
C14_OneCreateThenDelay ==
  [][/\ Len(createLog') > Len(createLog) =>
          /\ pc = "loop"
          /\ Len(outcomes) = Len(createLog)
          /\ createLog'[Len(createLog')].index = i
     /\ (i' > i /\ i' < Len(tabsToSave)) =>
          (pc = "delay" /\ Len(outcomes) = i + 1)]_vars

(***************************************************************************)
(* SpecLive: Spec with the steps of a run that the runtime and the run's   *)
(* collaborators take sooner or later: the loop and the code after it go   *)
(* on, the timer of the delay fires, every create reports and every        *)
(* callback of chrome.tabs.remove is called                                *)
(***************************************************************************)
\* the next step of the invocation under way; pc leaves one of them enabled
RunStep ==
  \/ CallCreate
  \/ CreateSettled
  \/ DelayElapsed
  \/ AfterLoop
  \/ BatchCallback
  \/ FallbackRemove
  \/ SingleCallback
  \/ Finish

RunGoesOn == WF_vars(RunStep)

\* the tabs in the order the windows hold them
TabsInOrder == <<TabA, TabB, TabC, TabD>>
Rank(tab) == CHOOSE n \in DOMAIN TabsInOrder : TabsInOrder[n] = tab

\* chrome.tabs.query returns the tabs in that order
InitLive ==
  /\ Init
  /\ \A a, b \in DOMAIN allTabs : a < b => Rank(allTabs[a]) < Rank(allTabs[b])

SpecLive == InitLive /\ [][Next]_vars /\ RunGoesOn

\* the status is that of a run that is over
Completed == ~bulkSaveStatus.isActive /\ bulkSaveStatus.total > 0

Returned(value) == [value |-> value, set |-> FALSE, written |-> NoValue]
WroteAndReturned(object, value) ==
  [value |-> value, set |-> TRUE, written |-> Obj(object)]

\* const enriched = { closeTabsOnBulkSave: false, ...parsedSettings.data }
Enriched(data) ==
  Spread([NoProps EXCEPT !["closeTabsOnBulkSave"] = "false"], data)

\* getPluginSettings without the write of the enriched record
getPluginSettings_NoEnrichWrite(raw) ==
  LET parsedSettings == zSettingsSchema(raw) IN
  IF parsedSettings.success
    THEN IF parsedSettings.data["closeTabsOnBulkSave"] = Undefined
           THEN Returned(Enriched(parsedSettings.data))
           ELSE Returned(parsedSettings.data)
    ELSE Returned(DEFAULT_SETTINGS)

\* getPluginSettings that persists the defaults it falls back to
getPluginSettings_PersistsDefaults(raw) ==
  LET parsedSettings == zSettingsSchema(raw) IN
  IF parsedSettings.success
    THEN IF parsedSettings.data["closeTabsOnBulkSave"] = Undefined
           THEN WroteAndReturned(Enriched(parsedSettings.data),
                                 Enriched(parsedSettings.data))
           ELSE Returned(parsedSettings.data)
    ELSE IF IsNonNullObject(raw)
      THEN LET mergedSettings == Spread(DEFAULT_SETTINGS, raw.obj)
               mergedParsed == zSettingsSchema(Obj(mergedSettings)) IN
           IF mergedParsed.success
             THEN WroteAndReturned(mergedSettings, mergedParsed.data)
             ELSE WroteAndReturned(DEFAULT_SETTINGS, DEFAULT_SETTINGS)
      ELSE WroteAndReturned(DEFAULT_SETTINGS, DEFAULT_SETTINGS)

\* getPluginSettings that writes the merged record and returns the one it
\* read, as parsed or not at all
getPluginSettings_WritesOnEveryCall(raw) ==
  LET parsedSettings == zSettingsSchema(raw) IN
  IF parsedSettings.success
    THEN WroteAndReturned(Enriched(parsedSettings.data), parsedSettings.data)
    ELSE Returned(DEFAULT_SETTINGS)

\* the first copy (part_000, lines 76-104)
getPluginSettings(raw) ==
  LET parsedSettings == zSettingsSchema(raw) IN
  IF parsedSettings.success
    THEN IF parsedSettings.data["closeTabsOnBulkSave"] = Undefined
           THEN WroteAndReturned(Enriched(parsedSettings.data),
                                 Enriched(parsedSettings.data))
           ELSE Returned(parsedSettings.data)
    ELSE IF IsNonNullObject(raw)
      THEN LET mergedSettings == Spread(DEFAULT_SETTINGS, raw.obj)
               mergedParsed == zSettingsSchema(Obj(mergedSettings)) IN
           IF mergedParsed.success
             THEN WroteAndReturned(mergedSettings, mergedParsed.data)
             ELSE Returned(DEFAULT_SETTINGS)
      ELSE Returned(DEFAULT_SETTINGS)

\* the second copy (part_000, lines 193-214)
getPluginSettings_2(raw) ==
  LET parsedSettings == zSettingsSchema_2(raw) IN
  IF parsedSettings.success
    THEN Returned(parsedSettings.data)
    ELSE IF IsNonNullObject(raw)
      THEN LET mergedSettings == Spread(DEFAULT_SETTINGS_2, raw.obj)
               mergedParsed == zSettingsSchema_2(Obj(mergedSettings)) IN
           IF mergedParsed.success
             THEN WroteAndReturned(mergedSettings, mergedParsed.data)
             ELSE Returned(DEFAULT_SETTINGS_2)
      ELSE Returned(DEFAULT_SETTINGS_2)

(***************************************************************************)
(* SpecRead: one caller of getPluginSettings, call after call, over every  *)
(* stored value; nobody else writes                                        *)
(***************************************************************************)
InitRead ==
  /\ PageAtRest
  /\ RunAtRest
  /\ HookAtRest
  /\ WritersAtRest
  /\ stored \in StoredValues
  /\ EffectsAtRest
  /\ readerCopy \in {1, 2}
  /\ rpc = "idle"
  /\ fetched = NoValue
  /\ reads = <<>>

\* const storedSettings = (await STORAGE.get("settings")).settings
GetStart ==
  /\ rpc = "idle"
  /\ fetched' = stored
  /\ rpc' = "fetched"
  /\ UNCHANGED <<stored, readerCopy, reads>>
  /\ UNCHANGED <<bulkVars, effectVars, closeTimer, dropped,
                 writeVars, hookVars>>

\* the rest of the call: parse, perhaps STORAGE.set, return
GetFinish ==
  /\ rpc = "fetched"
  /\ LET r == IF readerCopy = 1 THEN getPluginSettings(fetched)
                                ELSE getPluginSettings_2(fetched)
         entry == [value |-> r.value, set |-> r.set, before |-> fetched,
                   after |-> IF r.set THEN r.written ELSE stored] IN
     /\ stored' = IF r.set THEN r.written ELSE stored
     /\ reads' = IF Len(reads) < 2 THEN Append(reads, entry)
                                   ELSE <<reads[2], entry>>
  /\ rpc' = "idle"
  /\ UNCHANGED <<readerCopy, fetched>>
  /\ UNCHANGED <<bulkVars, effectVars, closeTimer, dropped,
                 writeVars, hookVars>>

NextRead == GetStart \/ GetFinish

SpecRead == InitRead /\ [][NextRead]_vars

(***************************************************************************)
(* Properties of getPluginSettings (checked under SpecRead)                *)
(***************************************************************************)
\* the fields the schema fills in or the defaults name
DefaultableFields ==
  {"address", "autoSave", "closeTabsOnBulkSave", "theme", "showCountBadge",
   "useBadgeCache", "badgeCacheExpireMs", "customHeaders"}

\* apiKey and every defaultable field hold a value of the field's type
FullyDefaulted(value) ==
  \A k \in DefaultableFields \cup {"apiKey"} : value[k] \in FieldType(k)

\* C7: whatever is stored, getPluginSettings returns a record with apiKey
\* and every defaultable field present and valid
C7_ReadFullyDefaulted ==
  \A n \in DOMAIN reads : FullyDefaulted(reads[n].value)

\* C8: two calls in a row with no write in between return equal records,
\* and the second call writes nothing
C8_ReadIdempotent ==
  Len(reads) = 2 =>
    /\ reads[2].value = reads[1].value
    /\ ~reads[2].set
    /\ reads[2].after = reads[1].after

\* two calls in a row, the first of which wrote to the store
C8_Witness ==
  /\ Len(reads) = 2
  /\ reads[1].set
  /\ reads[1].before # reads[1].after

\* a stored record that validates and has no closeTabsOnBulkSave
NeedsMigration(raw) ==
  zSettingsSchema(raw).success /\ raw.obj["closeTabsOnBulkSave"] = Undefined

\* C9 as stated: such a record is returned with closeTabsOnBulkSave = false,
\* and the store then holds closeTabsOnBulkSave = false with every other
\* stored property as it was
C9_MigrationKeepsEveryProperty ==
  \A n \in DOMAIN reads :
    (readerCopy = 1 /\ NeedsMigration(reads[n].before)) =>
      /\ reads[n].value["closeTabsOnBulkSave"] = "false"
      /\ reads[n].after.kind = "object"
      /\ reads[n].after.obj["closeTabsOnBulkSave"] = "false"
      /\ \A k \in Keys :
           reads[n].before.obj[k] # Undefined =>
             reads[n].after.obj[k] = reads[n].before.obj[k]

\* C9 amended: such a record is returned with closeTabsOnBulkSave = false,
\* and the store then holds closeTabsOnBulkSave = false with every other
\* stored field of the schema as it was, the schema's default for each
\* field that was absent, and no property the schema does not know
C9_MigrationKeepsSchemaFields ==
  \A n \in DOMAIN reads :
    (readerCopy = 1 /\ NeedsMigration(reads[n].before)) =>
      /\ reads[n].value["closeTabsOnBulkSave"] = "false"
      /\ reads[n].set
      /\ reads[n].after.kind = "object"
      /\ reads[n].after.obj["closeTabsOnBulkSave"] = "false"
      /\ \A k \in SchemaKeys :
           reads[n].before.obj[k] # Undefined =>
             reads[n].after.obj[k] = reads[n].before.obj[k]
      /\ \A k \in SchemaKeys \ {"closeTabsOnBulkSave"} :
           reads[n].before.obj[k] = Undefined =>
             reads[n].after.obj[k] = SchemaDefault(k)
      /\ reads[n].after.obj["other"] = Undefined

\* a migrated record that had fields of its own, theme among them
C9_Witness ==
  \E n \in DOMAIN reads :
    /\ readerCopy = 1
    /\ NeedsMigration(reads[n].before)
    /\ reads[n].before.obj["theme"] = "\"dark\""
    /\ reads[n].before.obj["apiKeyId"] # Undefined
    /\ reads[n].after.obj["closeTabsOnBulkSave"] = "false"

\* a stored value that fails validation and that the merge over the
\* defaults cannot mend: not a non-null object, or still failing once merged
Unrecoverable(raw) ==
  /\ ~zSettingsSchema(raw).success
  /\ \/ ~IsNonNullObject(raw)
     \/ ~zSettingsSchema(Obj(Spread(DEFAULT_SETTINGS, raw.obj))).success

\* C16: on such a value getPluginSettings returns the full default record
\* and writes nothing: the stored value stays as it was
C16_UnrecoverableLeftAlone ==
  \A n \in DOMAIN reads :
    (readerCopy = 1 /\ Unrecoverable(reads[n].before)) =>
      /\ reads[n].value = DEFAULT_SETTINGS
      /\ FullyDefaulted(reads[n].value)
      /\ ~reads[n].set
      /\ reads[n].after = reads[n].before
      /\ stored = reads[n].before

\* a stored object with an apiKey and an ill-typed property, which the
\* merge leaves in place, was read twice
C16_Witness ==
  /\ readerCopy = 1
  /\ Len(reads) = 2
  /\ Unrecoverable(reads[1].before)
  /\ reads[1].before.kind = "object"
  /\ reads[1].before.obj["apiKey"] = "\"k\""
  /\ reads[2].value = DEFAULT_SETTINGS
  /\ reads[2].after = reads[1].before

\* a stored record that validates and lacks a defaultable field
LacksDefaultable(raw) ==
  /\ zSettingsSchema(raw).success
  /\ \E k \in DefaultableFields : raw.obj[k] = Undefined

\* C17: a stored record that validates and lacks a defaultable field is
\* persisted by the read with every such field present, and that write
\* happens once: a record that lacks none is not written again
C17_BackfillPersistedOnce ==
  \A n \in DOMAIN reads :
    (readerCopy = 1 /\ zSettingsSchema(reads[n].before).success) =>
      IF LacksDefaultable(reads[n].before)
        THEN /\ reads[n].set
             /\ reads[n].after.kind = "object"
             /\ \A k \in DefaultableFields :
                  reads[n].after.obj[k] \in FieldType(k)
        ELSE ~reads[n].set

(***************************************************************************)
(* SpecStore: one usePluginSettings (its effect, its listener, its         *)
(* setSettings), one subscribeToSettingsChanges callback, and writes of    *)
(* the key by other contexts                                               *)
(***************************************************************************)
\* the stored values SpecStore starts from
StoreStart ==
  {NoValue, Obj(BaseMinimal), Obj(BaseFull),
   Obj([BaseFull EXCEPT !["badgeCacheExpireMs"] = "-1"])}

\* what other contexts (another device through sync, another version of
\* the extension) put under the key: a full record, an early record, a
\* record this schema rejects
ForeignValues ==
  {Obj(BaseFull), Obj(BaseMinimal), Obj([BaseFull EXCEPT !["theme"] = "\"neon\""])}

\* the updater of the BulkSavePage checkbox:
\* s => ({ ...s, closeTabsOnBulkSave: checked })
SetCloseTabs(checked, s) == [s EXCEPT !["closeTabsOnBulkSave"] = checked]

\* StorageSet laying the properties of the new value over those of the
\* value in place
StorageSet_MergesIntoStored(value) ==
  /\ stored' = IF stored.kind = "object" /\ value.kind = "object"
                 THEN Obj(Spread(stored.obj, value.obj))
                 ELSE value
  /\ written' = Append(written, [value |-> value, to |-> registered])
  /\ pending' = [l \in Listeners |->
                   IF l \in registered THEN Append(pending[l], value)
                   ELSE pending[l]]

\* chrome.storage: the key is set, and every listener registered on
\* STORAGE.onChanged is due a change carrying the new value
StorageSet(value) ==
  /\ stored' = value
  /\ written' = Append(written, [value |-> value, to |-> registered])
  /\ pending' = [l \in Listeners |->
                   IF l \in registered THEN Append(pending[l], value)
                   ELSE pending[l]]

InitStore ==
  /\ PageAtRest
  /\ RunAtRest
  /\ ReaderAtRest
  /\ HookAtRest
  /\ WritersAtRest
  /\ stored \in StoreStart
  /\ EffectsAtRest

\* the effect of usePluginSettings: getPluginSettings() is called and
\* onChange is added to STORAGE.onChanged
Mount ==
  /\ hpc = "unmounted"
  /\ hpc' = "reading"
  /\ registered' = registered \cup {"hook"}
  /\ UNCHANGED <<settings, isInit, hfetched, hresult, pending, received,
                 written>>
  /\ UNCHANGED <<stored, bulkVars, effectVars, closeTimer, dropped,
                 writeVars, readVars>>

\* the hook's getPluginSettings: STORAGE.get has resolved
HookGetStart ==
  /\ hpc = "reading"
  /\ hfetched' = stored
  /\ hpc' = "fetched"
  /\ UNCHANGED <<settings, isInit, hresult, registered, pending, received,
                 written>>
  /\ UNCHANGED <<stored, bulkVars, effectVars, closeTimer, dropped,
                 writeVars, readVars>>

\* the hook's getPluginSettings: parse, perhaps STORAGE.set, return
HookGetFinish ==
  /\ hpc = "fetched"
  /\ LET r == getPluginSettings(hfetched) IN
     /\ hresult' = r.value
     /\ IF r.set THEN StorageSet(r.written)
                 ELSE UNCHANGED <<stored, written, pending>>
  /\ hpc' = "resolved"
  /\ UNCHANGED <<settings, isInit, hfetched, registered, received>>
  /\ UNCHANGED <<bulkVars, effectVars, closeTimer, dropped,
                 writeVars, readVars>>

\* .then(settings => { setSettingsInternal(settings); setIsInit(true) })
HookInitDone ==
  /\ hpc = "resolved"
  /\ settings' = hresult
  /\ isInit' = TRUE
  /\ hpc' = "ready"
  /\ UNCHANGED <<hfetched, hresult, registered, pending, received, written>>
  /\ UNCHANGED <<stored, bulkVars, effectVars, closeTimer, dropped,
                 writeVars, readVars>>

\* subscribeToSettingsChanges(callback)
Subscribe ==
  /\ "subscriber" \notin registered
  /\ registered' = registered \cup {"subscriber"}
  /\ UNCHANGED <<settings, isInit, hpc, hfetched, hresult, pending, received,
                 written>>
  /\ UNCHANGED <<stored, bulkVars, effectVars, closeTimer, dropped,
                 writeVars, readVars>>

\* setSettings(s): const newVal = s(settings); await STORAGE.set(...)
setSettings ==
  /\ hpc # "unmounted"
  /\ Len(written) < MaxWrites
  /\ \E checked \in JsonBooleans :
       StorageSet(Obj(SetCloseTabs(checked, settings)))
  /\ UNCHANGED <<settings, isInit, hpc, hfetched, hresult, registered,
                 received>>
  /\ UNCHANGED <<bulkVars, effectVars, closeTimer, dropped,
                 writeVars, readVars>>

\* another context sets the key
ForeignSet ==
  /\ Len(written) < MaxWrites
  /\ \E value \in ForeignValues : StorageSet(value)
  /\ UNCHANGED <<settings, isInit, hpc, hfetched, hresult, registered,
                 received>>
  /\ UNCHANGED <<bulkVars, effectVars, closeTimer, dropped,
                 writeVars, readVars>>

\* SubscriberArgument handing over the new value as stored, unparsed
SubscriberArgument_Unparsed(newValue) == newValue.obj

\* the callback of subscribeToSettingsChanges is given the parsed value, or
\* DEFAULT_SETTINGS when the value does not parse
SubscriberArgument(newValue) ==
  LET parsedSettings == zSettingsSchema(newValue) IN
  IF parsedSettings.success THEN parsedSettings.data ELSE DEFAULT_SETTINGS

\* usePluginSettings.onChange calls setSettingsInternal only with a value
\* that parses
HookAdopts(newValue) == zSettingsSchema(newValue).success

\* one invocation of a listener, as the history keeps it
Invocation(newValue, called, given) ==
  [newValue |-> newValue, called |-> called, given |-> given]

\* STORAGE.onChanged calls usePluginSettings.onChange
DeliverToHook ==
  /\ pending["hook"] # <<>>
  /\ LET newValue == Head(pending["hook"])
         parsedSettings == zSettingsSchema(newValue) IN
     /\ settings' = IF HookAdopts(newValue) THEN parsedSettings.data
                                            ELSE settings
     /\ received' = [received EXCEPT !["hook"] =
          Append(@, Invocation(newValue, HookAdopts(newValue),
                               parsedSettings.data))]
  /\ pending' = [pending EXCEPT !["hook"] = Tail(@)]
  /\ UNCHANGED <<isInit, hpc, hfetched, hresult, registered, written>>
  /\ UNCHANGED <<stored, bulkVars, effectVars, closeTimer, dropped,
                 writeVars, readVars>>

\* STORAGE.onChanged calls the listener of subscribeToSettingsChanges
DeliverToSubscriber ==
  /\ pending["subscriber"] # <<>>
  /\ LET newValue == Head(pending["subscriber"]) IN
     received' = [received EXCEPT !["subscriber"] =
       Append(@, Invocation(newValue, TRUE, SubscriberArgument(newValue)))]
  /\ pending' = [pending EXCEPT !["subscriber"] = Tail(@)]
  /\ UNCHANGED <<settings, isInit, hpc, hfetched, hresult, registered,
                 written>>
  /\ UNCHANGED <<stored, bulkVars, effectVars, closeTimer, dropped,
                 writeVars, readVars>>

NextStore ==
  \/ Mount
  \/ HookGetStart
  \/ HookGetFinish
  \/ HookInitDone
  \/ Subscribe
  \/ setSettings
  \/ ForeignSet
  \/ DeliverToHook
  \/ DeliverToSubscriber

SpecStore == InitStore /\ [][NextStore]_vars

(***************************************************************************)
(* Properties of the change listeners (checked under SpecStore)            *)
(***************************************************************************)
\* the writes a listener is due: those made while it was registered
EventsFor(l) == SelectSeq(written, LAMBDA w : l \in w.to)

\* every property of the written value shows in what the listener was given
Represents(given, value) ==
  /\ value.kind = "object"
  /\ \A k \in SchemaKeys : value.obj[k] # Undefined => given[k] = value.obj[k]

LatestPersisted == getPluginSettings(stored).value

\* C11: setSettings, called once the hook has finished its initial read,
\* persists updater(L) for L the latest persisted configuration: the write
\* of the checkbox changes closeTabsOnBulkSave and leaves every other field
\* equal to its latest persisted value
C11_WriteAppliesUpdaterToLatest ==
  [][(setSettings /\ isInit) =>
       \A k \in SchemaKeys \ {"closeTabsOnBulkSave"} :
         stored'.obj[k] = LatestPersisted[k]]_vars

(***************************************************************************)
(* What readers of the settings observe (checked under SpecStore)          *)
(***************************************************************************)
\* C15: every configuration a reader observes has apiKey and every
\* defaultable field populated, closeTabsOnBulkSave among them: the
\* snapshot of usePluginSettings at all times, what its getPluginSettings
\* call returned, and every argument of the subscribeToSettingsChanges
\* callback
C15_ObservedFullyDefaulted ==
  /\ FullyDefaulted(settings)
  /\ hpc \in {"resolved", "ready"} => FullyDefaulted(hresult)
  /\ \A j \in DOMAIN received["subscriber"] :
       FullyDefaulted(received["subscriber"][j].given)

(***************************************************************************)
(* SpecPage: the popup.  SavePage reads the request of the session         *)
(* storage and navigates to /bulk-save?auto=all; BulkSavePage runs its     *)
(* effect, whose prepare() queries the tabs and invokes handleBulkSave.    *)
(* Each prepare() and each handleBulkSave is an async function holding the *)
(* values of the render that created it; they interleave at their awaits.  *)
(* The removes of closeTabsHelper, which touch no state of the page, are   *)
(* followed in Spec.                                                       *)
(***************************************************************************)
\* what chrome.tabs.query returns, filtered: all tabs, the current window's
BrowserTabs == <<TabA, TabB>>
BrowserWindowTabs == <<TabA>>

BulkSaveAllTabs == "BULK_SAVE_ALL_TABS"

\* one call of prepare(): where it stands, and the bulkSaveStatus.isActive
\* and the handleBulkSave (its allTabs, its currentWindowTabs) of the render
\* whose effect called it
NewPrepare(all, win, active) ==
  [at |-> "queryAll", isActive |-> active, allTabs |-> all,
   currentWindowTabs |-> win, req |-> Undefined]

\* the effect runs after a render that changed one of its dependencies
RunEffect(ps, all, win, active) ==
  IF Len(ps) < MaxPrepares THEN Append(ps, NewPrepare(all, win, active))
                           ELSE ps

\* one invocation of handleBulkSave that got past the empty-list test
NewRun(by, type, tabs) ==
  [by |-> by, type |-> type, tabs |-> tabs, at |-> "loop", i |-> 0,
   completed |-> 0]

\* the invocations that have not set the final status yet
RunsUnderWay == {r \in DOMAIN runs : runs[r].at # "done"}

\* handleBulkSave(type) as the caller's render defined it (over `all` and
\* `win`), up to its first await; ps, newAll and newWin are the calls of
\* prepare() and the tab lists as the caller leaves them, and rendered tells
\* whether the caller changed a dependency of the effect
Invoke(by, type, all, win, ps, newAll, newWin, rendered) ==
  LET tabs == IF type = "all" THEN all ELSE win IN
  IF NoValidTabs(tabs)
    THEN /\ error' = NoValidTabsMessage
         /\ prepares' = IF rendered
                          THEN RunEffect(ps, newAll, newWin,
                                         bulkSaveStatus.isActive)
                          ELSE ps
         /\ UNCHANGED <<bulkSaveStatus, runs>>
    ELSE /\ Len(runs) < MaxRuns
         /\ bulkSaveStatus' = StartedStatus(type, tabs)
         /\ runs' = Append(runs, NewRun(by, type, tabs))
         /\ prepares' = IF rendered \/ ~bulkSaveStatus.isActive
                          THEN RunEffect(ps, newAll, newWin, TRUE)
                          ELSE ps
         /\ UNCHANGED error

PopupAtRest ==
  /\ PageAtRest
  /\ RunAtRest
  /\ ReaderAtRest
  /\ HookAtRest
  /\ WritersAtRest
  /\ stored = NoValue

\* the popup opens on SavePage, or on BulkSavePage without the auto
\* parameter; a BULK_SAVE_ALL_TABS request is stored, or none
InitPage ==
  /\ PopupAtRest
  /\ session \in {"none", BulkSaveAllTabs}
  /\ route \in {"save", "bulk"}
  /\ auto = "null"
  /\ spc = IF route = "save" THEN "get" ELSE "off"
  /\ sreq = Undefined
  /\ prepares = <<>>
  /\ runs = <<>>

\* what SpecPage leaves alone: the single run of Spec and the store
elsewhereVars == <<runVars, histVars, storeVars, closeTimer, dropped>>

(***************************************************************************)
(* SavePage                                                                *)
(***************************************************************************)
\* const { [KEY]: req } = await chrome.storage.session.get(KEY)
SaveGot ==
  /\ route = "save"
  /\ spc = "get"
  /\ sreq' = IF session = "none" THEN Undefined ELSE session
  /\ spc' = IF session = "none" THEN "rest" ELSE "remove"
  /\ UNCHANGED <<route, auto, session, prepares, runs>>
  /\ UNCHANGED <<pageVars, elsewhereVars>>

\* await chrome.storage.session.remove(KEY); for BULK_SAVE_ALL_TABS
\* setShouldTriggerBulkSave(true), whose effect navigates to
\* /bulk-save?auto=all
SaveRemoved ==
  /\ route = "save"
  /\ spc = "remove"
  /\ session' = "none"
  /\ IF sreq = BulkSaveAllTabs
       THEN /\ route' = "bulk"
            /\ auto' = "all"
            /\ spc' = "left"
       ELSE /\ spc' = "rest"
            /\ UNCHANGED <<route, auto>>
  /\ UNCHANGED <<sreq, prepares, runs>>
  /\ UNCHANGED <<pageVars, elsewhereVars>>

(***************************************************************************)
(* BulkSavePage: the effect and prepare()                                  *)
(***************************************************************************)
\* the settings have loaded: the effect gets past `if (isSettingsLoading)`
\* for the first time and calls prepare()
SettingsLoaded ==
  /\ route = "bulk"
  /\ prepares = <<>>
  /\ prepares' = <<NewPrepare(allTabs, currentWindowTabs,
                              bulkSaveStatus.isActive)>>
  /\ UNCHANGED <<route, auto, session, spc, sreq, runs>>
  /\ UNCHANGED <<pageVars, elsewhereVars>>

\* const tabs = await chrome.tabs.query({}); setAllTabs(validTabs): the new
\* array gives handleBulkSave a new identity, so the effect runs again
PrepareAllTabs ==
  \E p \in DOMAIN prepares :
    /\ prepares[p].at = "queryAll"
    /\ allTabs' = BrowserTabs
    /\ prepares' = RunEffect([prepares EXCEPT ![p].at = "queryWindow"],
                             BrowserTabs, currentWindowTabs,
                             bulkSaveStatus.isActive)
    /\ UNCHANGED <<error, currentWindowTabs, closeTabs, bulkSaveStatus>>
    /\ UNCHANGED <<route, auto, session, spc, sreq, runs>>
    /\ UNCHANGED elsewhereVars

\* await chrome.tabs.query({currentWindow: true});
\* setCurrentWindowTabs(...); then the auto parameter: handleBulkSave(auto)
\* unless the isActive of the effect's render is set, else the session get
PrepareWindowTabs ==
  \E p \in DOMAIN prepares :
    LET c == prepares[p] IN
    /\ c.at = "queryWindow"
    /\ currentWindowTabs' = BrowserWindowTabs
    /\ IF auto \in {"window", "all"} /\ ~c.isActive
         THEN Invoke("auto", auto, c.allTabs, c.currentWindowTabs,
                     [prepares EXCEPT ![p].at = "done"],
                     allTabs, BrowserWindowTabs, TRUE)
         ELSE /\ prepares' =
                   RunEffect([prepares EXCEPT ![p].at = "sessionGet"],
                             allTabs, BrowserWindowTabs,
                             bulkSaveStatus.isActive)
              /\ UNCHANGED <<error, bulkSaveStatus, runs>>
    /\ UNCHANGED <<allTabs, closeTabs>>
    /\ UNCHANGED <<route, auto, session, spc, sreq>>
    /\ UNCHANGED elsewhereVars

\* const { [KEY]: req } = await chrome.storage.session.get(KEY)
PrepareSessionGot ==
  \E p \in DOMAIN prepares :
    /\ prepares[p].at = "sessionGet"
    /\ prepares' =
         IF session = BulkSaveAllTabs
           THEN [prepares EXCEPT ![p].at = "sessionRemove",
                                 ![p].req = BulkSaveAllTabs]
           ELSE [prepares EXCEPT ![p].at = "done"]
    /\ UNCHANGED <<route, auto, session, spc, sreq, runs>>
    /\ UNCHANGED <<pageVars, elsewhereVars>>

\* await chrome.storage.session.remove(KEY);
\* if (!bulkSaveStatus.isActive) handleBulkSave("window")
PrepareSessionRemoved ==
  \E p \in DOMAIN prepares :
    LET c == prepares[p] IN
    /\ c.at = "sessionRemove"
    /\ session' = "none"
    /\ IF ~c.isActive
         THEN Invoke("session", "window", c.allTabs, c.currentWindowTabs,
                     [prepares EXCEPT ![p].at = "done"],
                     allTabs, currentWindowTabs, FALSE)
         ELSE /\ prepares' = [prepares EXCEPT ![p].at = "done"]
              /\ UNCHANGED <<error, bulkSaveStatus, runs>>
    /\ UNCHANGED <<allTabs, currentWindowTabs, closeTabs>>
    /\ UNCHANGED <<route, auto, spc, sreq>>
    /\ UNCHANGED elsewhereVars

(***************************************************************************)
(* BulkSavePage: the buttons                                               *)
(***************************************************************************)
\* the two buttons of the idle view, with the handleBulkSave of the render
\* on screen
PageClick ==
  /\ route = "bulk"
  /\ prepares # <<>>
  /\ ~bulkSaveStatus.isActive /\ bulkSaveStatus.total = 0
  /\ \E type \in {"window", "all"} :
       /\ type = "window" => Len(currentWindowTabs) > 0
       /\ type = "all" => Len(allTabs) > Len(currentWindowTabs)
       /\ Invoke("click", type, allTabs, currentWindowTabs, prepares,
                 allTabs, currentWindowTabs, FALSE)
  /\ UNCHANGED <<allTabs, currentWindowTabs, closeTabs>>
  /\ UNCHANGED <<route, auto, session, spc, sreq>>
  /\ UNCHANGED elsewhereVars

\* the Done button of the completion view
PageDone ==
  /\ route = "bulk"
  /\ ~bulkSaveStatus.isActive /\ bulkSaveStatus.total > 0
  /\ bulkSaveStatus' = InitialStatus
  /\ UNCHANGED <<error, allTabs, currentWindowTabs, closeTabs>>
  /\ UNCHANGED <<effectVars, elsewhereVars>>

(***************************************************************************)
(* BulkSavePage: the invocations of handleBulkSave, each with its own      *)
(* tabsToSave, i and completed, all on the one bulkSaveStatus              *)
(***************************************************************************)
\* createBookmark is called for tab i: it takes the request, or throws
PageCallCreate ==
  \E r \in DOMAIN runs :
    LET run == runs[r] IN
    /\ run.at = "loop"
    /\ run.i < Len(run.tabs)
    /\ \/ /\ runs' = [runs EXCEPT ![r].at = "awaitCreate"]
          /\ UNCHANGED bulkSaveStatus
       \/ \E thrown \in CreateThrows :
            /\ bulkSaveStatus' =
                 CatchStatus(bulkSaveStatus,
                             ErrorMsg(run.tabs[run.i + 1], ThrownMessage(thrown)))
            /\ runs' = [runs EXCEPT ![r].i = NextIndex(run.i)]
    /\ UNCHANGED <<error, allTabs, currentWindowTabs, closeTabs>>
    /\ UNCHANGED <<route, auto, session, spc, sreq, prepares>>
    /\ UNCHANGED elsewhereVars

\* the mutation reports: onSuccess, or the hook's onError and then onError
PageCreateSettled ==
  \E r \in DOMAIN runs :
    LET run == runs[r]
        tab == run.tabs[run.i + 1]
        total == Len(run.tabs) IN
    /\ run.at = "awaitCreate"
    /\ \E reply \in CreateReplies :
         IF reply.kind = "success"
           THEN /\ bulkSaveStatus' =
                     SuccessStatus(bulkSaveStatus, run.i, total,
                                   run.completed + 1)
                /\ runs' = [runs EXCEPT ![r].at = "delay",
                                        ![r].completed = run.completed + 1]
                /\ UNCHANGED error
           ELSE /\ bulkSaveStatus' =
                     ErrorStatus(bulkSaveStatus, run.i, total,
                                 ErrorMsg(tab, reply.message))
                /\ runs' = [runs EXCEPT ![r].at = "delay"]
                /\ error' = "Something went wrong: " \o reply.message
    /\ UNCHANGED <<allTabs, currentWindowTabs, closeTabs>>
    /\ UNCHANGED <<route, auto, session, spc, sreq, prepares>>
    /\ UNCHANGED elsewhereVars

\* the delay's timer fires; i++
PageDelayElapsed ==
  \E r \in DOMAIN runs :
    /\ runs[r].at = "delay"
    /\ runs' = [runs EXCEPT ![r].i = NextIndex(runs[r].i), ![r].at = "loop"]
    /\ UNCHANGED <<route, auto, session, spc, sreq, prepares>>
    /\ UNCHANGED <<pageVars, elsewhereVars>>

\* after the loop (and closeTabsHelper): the final status and the summary;
\* isActive going from true to false makes the effect run again
PageFinish ==
  \E r \in DOMAIN runs :
    LET run == runs[r] IN
    /\ run.at = "loop"
    /\ run.i >= Len(run.tabs)
    /\ bulkSaveStatus' = FinalStatus(bulkSaveStatus)
    /\ error' = Summary(run.completed, Len(run.tabs))
    /\ runs' = [runs EXCEPT ![r].at = "done"]
    /\ prepares' = IF bulkSaveStatus.isActive
                     THEN RunEffect(prepares, allTabs, currentWindowTabs, FALSE)
                     ELSE prepares
    /\ UNCHANGED <<allTabs, currentWindowTabs, closeTabs>>
    /\ UNCHANGED <<route, auto, session, spc, sreq>>
    /\ UNCHANGED elsewhereVars

NextPage ==
  \/ SaveGot
  \/ SaveRemoved
  \/ SettingsLoaded
  \/ PrepareAllTabs
  \/ PrepareWindowTabs
  \/ PrepareSessionGot
  \/ PrepareSessionRemoved
  \/ PageClick
  \/ PageDone
  \/ PageCallCreate
  \/ PageCreateSettled
  \/ PageDelayElapsed
  \/ PageFinish

SpecPage == InitPage /\ [][NextPage]_vars

(***************************************************************************)
(* Properties of the popup (checked under SpecPage)                        *)
(***************************************************************************)
\* the BULK_SAVE_ALL_TABS requests that were stored: one or none
Requested ==
  IF \/ session = BulkSaveAllTabs
     \/ sreq = BulkSaveAllTabs
     \/ \E p \in DOMAIN prepares : prepares[p].req = BulkSaveAllTabs
    THEN 1 ELSE 0

\* the runs that the auto parameter or the session request started
Triggered == {r \in DOMAIN runs : runs[r].by \in {"auto", "session"}}

\* C19: the request is gone from the session storage before SavePage
\* navigates to the bulk save and before BulkSavePage starts the run it
\* causes; one stored request starts at most one bulk save, and none is
\* started when no request was stored
C19_RequestTriggersOneBulkSave ==
  /\ [](Cardinality(Triggered) <= Requested)
  /\ [][/\ (route = "save" /\ route' = "bulk") => session' = "none"
        /\ (Len(runs') > Len(runs) /\ runs'[Len(runs')].by # "click")
             => session' = "none"]_vars

\* C20: no two runs of handleBulkSave overlap: at most one invocation is
\* under way, whatever started it
C20_NoOverlappingRuns == Cardinality(RunsUnderWay) <= 1

(***************************************************************************)
(* SpecWrite: two surfaces, each with a usePluginSettings of its own, call *)
(* setSettings while the other's STORAGE.set may be under way.  A call     *)
(* takes the surface's snapshot as it is, adopted from the store or not;   *)
(* the sets complete in either order.                                      *)
(***************************************************************************)
\* the records the store starts from: they validate and need no migration
WriteStart == {Obj(BaseFull), Obj([BaseFull EXCEPT !["apiKeyId"] = Undefined])}

InitWrite ==
  /\ PageAtRest
  /\ RunAtRest
  /\ ReaderAtRest
  /\ HookAtRest
  /\ EffectsAtRest
  /\ WritersAtRest
  /\ stored \in WriteStart

\* the setSettings calls whose STORAGE.set has not completed
UnderWay == {w \in Surfaces : writers[w].call # NoCall}

\* the surface takes over the stored value: its initial read resolves, or
\* its onChange is called with the latest change
WriterAdopts(w) ==
  /\ zSettingsSchema(stored).success
  /\ writers[w].settings # zSettingsSchema(stored).data
  /\ writers' = [writers EXCEPT ![w].settings = zSettingsSchema(stored).data]
  /\ UNCHANGED <<stored, completions>>
  /\ UNCHANGED <<bulkVars, effectVars, closeTimer, dropped, readVars, hookVars>>

\* setSettings(s): const newVal = s(settings); STORAGE.set is called
WriteCall(w) ==
  /\ writers[w].call = NoCall
  /\ Len(completions) + Cardinality(UnderWay) < MaxWrites
  /\ \E checked \in JsonBooleans :
       writers' = [writers EXCEPT ![w].call =
         [checked |-> checked, snapshot |-> writers[w].settings,
          newVal |-> Obj(SetCloseTabs(checked, writers[w].settings))]]
  /\ UNCHANGED <<stored, completions>>
  /\ UNCHANGED <<bulkVars, effectVars, closeTimer, dropped, readVars, hookVars>>

\* await STORAGE.set({ settings: newVal }) completes
WriteDone(w) ==
  /\ writers[w].call # NoCall
  /\ StorageSet(writers[w].call.newVal)
  /\ writers' = [writers EXCEPT ![w].call = NoCall]
  /\ completions' = Append(completions,
       [by |-> w, checked |-> writers[w].call.checked,
        snapshot |-> writers[w].call.snapshot,
        overlapped |-> UnderWay \ {w}])
  /\ UNCHANGED <<settings, isInit, hpc, hfetched, hresult, registered,
                 received>>
  /\ UNCHANGED <<bulkVars, effectVars, closeTimer, dropped, readVars>>

NextWrite ==
  \/ \E w \in Surfaces : WriterAdopts(w)
  \/ \E w \in Surfaces : WriteCall(w)
  \/ \E w \in Surfaces : WriteDone(w)

SpecWrite == InitWrite /\ [][NextWrite]_vars

(***************************************************************************)
(* Properties of concurrent writes (checked under SpecWrite)               *)
(***************************************************************************)
\* C21: when two surfaces write concurrently, each from its own snapshot,
\* the store holds exactly the value of the write that completed last, its
\* updater applied to the snapshot that writer held when it called, and no
\* mixture of the two writers' records
C21_LastWriteWins ==
  completions # <<>> =>
    LET last == completions[Len(completions)] IN
    /\ stored = Obj(SetCloseTabs(last.checked, last.snapshot))
    /\ \A k \in Keys :
         stored.obj[k] = SetCloseTabs(last.checked, last.snapshot)[k]

\* two writes overlapped, from snapshots that differ in apiKey; the one to
\* complete last was called before its surface had adopted the stored record
C21_Witness ==
  /\ Len(completions) = 2
  /\ completions[1].by # completions[2].by
  /\ completions[1].overlapped = {completions[2].by}
  /\ completions[1].snapshot["apiKey"] # completions[2].snapshot["apiKey"]
  /\ completions[1].checked # completions[2].checked
  /\ completions[2].snapshot = DEFAULT_SETTINGS
  /\ stored.obj["apiKey"] = "\"\""

(***************************************************************************)
(* SpecClose: BulkSavePage with its usePluginSettings.  The settings have  *)
(* loaded and prepare() has set the tab lists; while handleBulkSave runs,  *)
(* the settings key is written elsewhere, the change is delivered to the   *)
(* hook and the effect on [settings] sets closeTabs.                       *)
(***************************************************************************)
\* Boolean(settings.closeTabsOnBulkSave)
Boolean(value) == value = "true"

\* the records the store starts from
CloseStart ==
  {Obj(BaseFull), Obj([BaseFull EXCEPT !["closeTabsOnBulkSave"] = "false"])}

InitClose ==
  /\ error = Undefined
  /\ allTabs = BrowserTabs
  /\ currentWindowTabs = BrowserWindowTabs
  /\ bulkSaveStatus = InitialStatus
  /\ dropped = 0
  /\ RunAtRest
  /\ ReaderAtRest
  /\ WritersAtRest
  /\ EffectsAtRest
  /\ stored \in CloseStart
  /\ settings = zSettingsSchema(stored).data
  /\ closeTabs = Boolean(settings["closeTabsOnBulkSave"])
  /\ isInit = TRUE
  /\ hpc = "ready"
  /\ hfetched = stored
  /\ hresult = settings
  /\ registered = {"hook"}
  /\ pending = [l \in Listeners |-> <<>>]
  /\ received = [l \in Listeners |-> <<>>]
  /\ written = <<>>

\* useEffect(() => setCloseTabs(Boolean(settings.closeTabsOnBulkSave)),
\* [settings]), after a render in which settings has changed
SyncCloseTabs ==
  /\ closeTabs # Boolean(settings["closeTabsOnBulkSave"])
  /\ closeTabs' = Boolean(settings["closeTabsOnBulkSave"])
  /\ UNCHANGED <<error, allTabs, currentWindowTabs, bulkSaveStatus>>
  /\ UNCHANGED <<runVars, histVars, storeVars, effectVars, closeTimer, dropped>>

\* the checkbox of the idle view: setCloseTabs(checked) and
\* setSettings(s => ({...s, closeTabsOnBulkSave: checked}))
CheckboxChange ==
  /\ ~bulkSaveStatus.isActive /\ bulkSaveStatus.total = 0
  /\ Len(written) < MaxWrites
  /\ closeTabs' = ~closeTabs
  /\ StorageSet(Obj(SetCloseTabs(IF closeTabs THEN "false" ELSE "true",
                                settings)))
  /\ UNCHANGED <<error, allTabs, currentWindowTabs, bulkSaveStatus>>
  /\ UNCHANGED <<settings, isInit, hpc, hfetched, hresult, registered,
                 received>>
  /\ UNCHANGED <<runVars, createLog, outcomes, closeLog, progressLog,
                 lastCall>>
  /\ UNCHANGED <<readVars, writeVars, effectVars, closeTimer, dropped>>

NextClose ==
  \/ Next
  \/ SyncCloseTabs
  \/ CheckboxChange
  \/ ForeignSet
  \/ DeliverToHook

SpecClose == InitClose /\ [][NextClose]_vars

(***************************************************************************)
(* Properties of closeTabs during a run (checked under SpecClose)          *)
(***************************************************************************)
\* the run is past its loop
PastLoop == pc \in {"awaitBatch", "fallback", "awaitSingle", "finish", "done"}

\* C22: the closeTabs that decides whether tabs are closed at the end of a
\* run is the one held when the run starts: it stays as it is from the
\* start of the run to its end, whatever is written to the settings key,
\* delivered to the hook or set in closeTabs meanwhile; the run issues a
\* close request exactly if that value is true and a tab was saved, and
\* schedules window.close() exactly if that value is true
C22_CloseAfterFixedAtStart ==
  /\ [](PastLoop =>
         ((closeLog # <<>>) <=> (closeAfter /\ savedTabIds # <<>>)))
  /\ [][/\ (NoRun /\ pc' = "loop") => closeAfter' = closeTabs
        /\ ~NoRun => closeAfter' = closeAfter
        /\ (pc = "finish" /\ pc' = "done" /\ ~closeTimer)
             => closeTimer' = closeAfter]_vars

\* the run started with closeTabs set; a change written elsewhere was
\* delivered and cleared closeTabs during the run, whose saved tab was
\* closed all the same
C22_Witness ==
  /\ pc = "done"
  /\ closeAfter /\ ~closeTabs
  /\ received["hook"] # <<>>
  /\ closeLog # <<>>
  /\ closeTimer

(***************************************************************************)
(* SpecTabs: prepare() takes what chrome.tabs.query returns, keeps the     *)
(* tabs its filter lets through and sets allTabs and currentWindowTabs;    *)
(* handleBulkSave then runs over them as in Spec.                          *)
(***************************************************************************)
\* tabs the browser also reports: without a URL, with an empty one, internal
\* pages, pages of extensions, a local file, a scheme that begins like http
TabNoUrl == [id |-> 5, title |-> "New Tab", url |-> Undefined]
TabEmptyUrl == [id |-> 6, title |-> "", url |-> ""]
TabChrome == [id |-> 7, title |-> "Extensions", url |-> "chrome://extensions/"]
TabExtension ==
  [id |-> 8, title |-> "Karakeep", url |-> "chrome-extension://abc/index.html"]
TabMozExtension ==
  [id |-> 9, title |-> "Karakeep", url |-> "moz-extension://abc/index.html"]
TabFile == [id |-> 10, title |-> "notes", url |-> "file:///home/notes.txt"]
TabHttpLike == [id |-> 11, title |-> "", url |-> "httpx://e.example/"]
QueriedTabs ==
  Tabs \cup {TabNoUrl, TabEmptyUrl, TabChrome, TabExtension, TabMozExtension,
             TabFile, TabHttpLike}

\* what chrome.tabs.query may return: lists of tabs without repetition
QueryResults ==
  {s \in UNION {[1..n -> QueriedTabs] : n \in 0..MaxTabs} :
     \A a, b \in DOMAIN s : a # b => s[a] # s[b]}

\* String.prototype.startsWith
StartsWith(s, prefix) ==
  Len(s) >= Len(prefix) /\ SubSeq(s, 1, Len(prefix)) = prefix

\* the filter that keeps every tab
IsValidTab_KeepsAll(tab) == TRUE

\* the filter of prepare(): tab.url && (http:// || https://) && !chrome://
\* && !chrome-extension:// && !moz-extension://
IsValidTab(tab) ==
  /\ tab.url # Undefined /\ tab.url # ""
  /\ StartsWith(tab.url, "http://") \/ StartsWith(tab.url, "https://")
  /\ ~StartsWith(tab.url, "chrome://")
  /\ ~StartsWith(tab.url, "chrome-extension://")
  /\ ~StartsWith(tab.url, "moz-extension://")

\* tabs.filter(...)
ValidTabs(tabs) == SelectSeq(tabs, IsValidTab)

\* BulkSavePage has just been mounted with its settings loaded
InitTabs ==
  /\ PageAtRest
  /\ RunAtRest
  /\ ReaderAtRest
  /\ HookAtRest
  /\ WritersAtRest
  /\ EffectsAtRest
  /\ stored = NoValue

\* prepare(), called by the effect before handleBulkSave has been invoked:
\* the two queries and setAllTabs(validTabs),
\* setCurrentWindowTabs(validCurrentWindowTabs); the current window holds
\* the first tabs of the list
Prepare ==
  /\ pc = "idle" /\ lastCall.type = "null"
  /\ allTabs = <<>> /\ currentWindowTabs = <<>>
  /\ \E tabs \in QueryResults : \E k \in 0..Len(tabs) :
       /\ allTabs' = ValidTabs(tabs)
       /\ currentWindowTabs' = ValidTabs(SubSeq(tabs, 1, k))
       /\ dropped' = Len(tabs) - Len(ValidTabs(tabs))
  /\ closeTabs' \in BOOLEAN
  /\ UNCHANGED <<error, bulkSaveStatus>>
  /\ UNCHANGED <<runVars, histVars, storeVars, effectVars, closeTimer>>

NextTabs == Prepare \/ Next

SpecTabs == InitTabs /\ [][NextTabs]_vars

(***************************************************************************)
(* Properties of the tabs that are saved (checked under SpecTabs)          *)
(***************************************************************************)
\* C23: every tab for which createBookmark is invoked has a defined URL
\* that begins with http:// or https://; a tab with no URL or with a
\* chrome://, chrome-extension:// or moz-extension:// URL is never passed on
C23_OnlyHttpTabsCreated ==
  \A k \in DOMAIN createLog :
    LET url == createLog[k].request.url IN
    /\ url # Undefined
    /\ StartsWith(url, "http://") \/ StartsWith(url, "https://")
    /\ ~StartsWith(url, "chrome://")
    /\ ~StartsWith(url, "chrome-extension://")
    /\ ~StartsWith(url, "moz-extension://")
    /\ \E j \in DOMAIN tabsToSave : tabsToSave[j].url = url

\* the query returned three tabs, one of which the filter left out; the
\* other two were handed to createBookmark
C23_Witness ==
  /\ dropped = 1
  /\ Len(allTabs) = 2
  /\ Len(createLog) = 2
  /\ pc = "done"

(***************************************************************************)
(* Properties of bulkSaveStatus.errors (checked under Spec)                *)
(***************************************************************************)
\* the positions in tabsToSave of the tabs whose create failed, in order
FailedInOrder ==
  SelectSeq([k \in 1..Len(outcomes) |-> k], LAMBDA k : outcomes[k] = "failed")

\* the texts an error message may end with
ErrorTexts == ErrorMessages \cup {"Unknown error"}

HookSettled == hpc = "ready" /\ pending["hook"] = <<>>

\* C25: once the initial read of usePluginSettings has resolved and every
\* change notification has been delivered (so that, with no further write,
\* nothing more will reach the hook), its snapshot equals the persisted
\* record as validated: the result of the initial read has not replaced a
\* newer value that a change notification brought
C25_SnapshotMatchesPersisted ==
  (HookSettled /\ zSettingsSchema(stored).success) =>
    settings = zSettingsSchema(stored).data

\* C26: a getPluginSettings call that runs while another context writes
\* does not lose that write: when the call writes back (the enriched
\* record, the record merged over the defaults), the store still holds the
\* value the call has read
C26_WriteBackKeepsLaterWrite ==
  [][(hpc = "fetched" /\ hpc' = "resolved" /\ stored' # stored)
       => stored = hfetched]_vars

(***************************************************************************)
(* SpecAuto: the popup is opened on /bulk-save?auto=all or ?auto=window;   *)
(* no request is stored in the session storage.  The effect, prepare() and *)
(* the invocations of handleBulkSave are those of SpecPage.                *)
(***************************************************************************)
InitAuto ==
  /\ PopupAtRest
  /\ session = "none"
  /\ route = "bulk"
  /\ auto \in {"all", "window"}
  /\ spc = "off"
  /\ sreq = Undefined
  /\ prepares = <<>>
  /\ runs = <<>>

NextAuto ==
  \/ SettingsLoaded
  \/ PrepareAllTabs
  \/ PrepareWindowTabs
  \/ PrepareSessionGot
  \/ PageClick
  \/ PageDone
  \/ PageCallCreate
  \/ PageCreateSettled
  \/ PageDelayElapsed
  \/ PageFinish

SpecAuto == InitAuto /\ [][NextAuto]_vars

(***************************************************************************)
(* Properties of the auto parameter (checked under SpecAuto)               *)
(***************************************************************************)
\* the runs that prepare() started for the auto parameter
AutoRuns == {r \in DOMAIN runs : runs[r].by = "auto"}

\* an invocation of handleBulkSave by prepare() starts a run in this step
AutoRunStarts ==
  Len(runs') > Len(runs) /\ runs'[Len(runs')].by = "auto"

\* C27: opened with auto=all or auto=window and a valid tab to save, the
\* page starts one run for the page load and no more: once a run started
\* for the auto parameter has set isActive = false, the effect starts no
\* further run
C27_OneAutoRunPerLoad ==
  /\ [](Cardinality(AutoRuns) <= 1)
  /\ [][(\E r \in AutoRuns : runs[r].at = "done") => ~AutoRunStarts]_vars

====
